---- MODULE Spec2Model ----
(***************************************************************************)
(* Model of regrws: the template parser DictFromTemplate and the two       *)
(* dict-to-payload builders, PayloadFromTemplateDict (regrws/convert.py)   *)
(* and PayloadFromDict (regrws/payload/converter.py).                      *)
(*                                                                         *)
(* A template line is a sequence of tokens.  The tokens "0".."9", ".",     *)
(* ":", " " and "\n" are the characters the regular expression and         *)
(* str.strip() tell apart; every other token is a run of ordinary          *)
(* characters.  A python list is a sequence, a python dict a function.     *)
(***************************************************************************)
EXTENDS Integers, Sequences, FiniteSets, TLC

VARIABLES template, pos, parsed_template, builder, target, source, remaining,
          payload, payload0, made, trace, error, pc

vars == <<template, pos, parsed_template, builder, target, source, remaining,
          payload, payload0, made, trace, error, pc>>

(* Longest template explored. *)
MaxLines == 2

----------------------------------------------------------------------------
(* Text helpers. *)

Digit == {"0", "1", "2", "3", "4", "5", "6", "7", "8", "9"}

Whitespace == {" ", "\n"}

RECURSIVE join(_)
join(s) == IF s = <<>> THEN "" ELSE Head(s) \o join(Tail(s))

RECURSIVE lstrip(_)
lstrip(s) == IF s # <<>> /\ Head(s) \in Whitespace THEN lstrip(Tail(s)) ELSE s

RECURSIVE rstrip(_)
rstrip(s) ==
    IF s # <<>> /\ s[Len(s)] \in Whitespace
    THEN rstrip(SubSeq(s, 1, Len(s) - 1))
    ELSE s

strip(s) == join(rstrip(lstrip(s)))

(* '.' does not match a newline: the pattern only sees the first physical
   line of the string. *)
dotrun(line) ==
    IF \E i \in 1..Len(line) : line[i] = "\n"
    THEN SubSeq(line, 1, (CHOOSE i \in 1..Len(line) :
                            /\ line[i] = "\n"
                            /\ \A j \in 1..(i - 1) : line[j] # "\n") - 1)
    ELSE line

(* _regex.match(line): two digits, a period, a greedy group, a colon and a
   second group.  The match is anchored at the start only, and the greedy
   first group runs up to the last colon. *)
regex_match(line) ==
    LET l == dotrun(line)
    IN  /\ Len(l) >= 4
        /\ l[1] \in Digit
        /\ l[2] \in Digit
        /\ l[3] = "."
        /\ \E i \in 4..Len(l) : l[i] = ":"

lastcolon(l) ==
    CHOOSE i \in 4..Len(l) : l[i] = ":" /\ \A j \in (i + 1)..Len(l) : l[j] # ":"

group1(line) ==
    LET l == dotrun(line) IN SubSeq(l, 4, lastcolon(l) - 1)

group2(line) ==
    LET l == dotrun(line) IN SubSeq(l, lastcolon(l) + 1, Len(l))

----------------------------------------------------------------------------
(* Template lines offered to the parser. *)

L(label, value) == <<"0", "1", ".", label, ":", value>>

Lines ==
    { <<"0", "1", ".", " ", "City", " ", ":", " ", "a", " ", "\n">>,
      <<"0", "2", ".", "City", ":", "a", ":", "b">>,
      <<"#", " ", "City", ":", "a">>,
      L("Org City", "b"),
      L("First Name", "a"),
      L("Address", "a"),
      L("Org Address", "b"),
      L("Public Comments", "a"),
      L("Office Phone Number", "a"),
      L("Office Phone Number Extension", "b"),
      L("Mobile", "a"),
      L("E-mail Address", "a"),
      L("Admin POC Handle", "a"),
      L("Contact Type (P or R)", "P"),
      L("Contact Type (P or R)", "R"),
      L("Contact Type (P or R)", "X"),
      L("Country Code", "US"),
      L("Country Code", "ZZ"),
      L("API Key", "a") }

Templates == UNION { [1..n -> Lines] : n \in 0..MaxLines }

EmptyDict == <<>>

----------------------------------------------------------------------------
(* DictFromTemplate *)

(* _process with the new value put in front of the list. *)
_process_prepend(d, line) ==
    LET key == strip(group1(line))
        value == strip(group2(line))
    IN  IF key \in DOMAIN d
        THEN [d EXCEPT ![key] = <<value>> \o @]
        ELSE [k \in DOMAIN d \cup {key} |-> IF k = key THEN <<value>> ELSE d[k]]

_process(d, line) ==
    LET key == strip(group1(line))
        value == strip(group2(line))
    IN  IF key \in DOMAIN d
        THEN [d EXCEPT ![key] = Append(@, value)]
        ELSE [k \in DOMAIN d \cup {key} |-> IF k = key THEN <<value>> ELSE d[k]]

DictFromTemplate_match ==
    /\ pc = "parsing"
    /\ pos <= Len(template)
    /\ regex_match(template[pos])
    /\ parsed_template' = _process(parsed_template, template[pos])
    /\ pos' = pos + 1
    /\ UNCHANGED <<template, builder, target, source, remaining, payload,
                   payload0, made, trace, error, pc>>

DictFromTemplate_nomatch ==
    /\ pc = "parsing"
    /\ pos <= Len(template)
    /\ ~regex_match(template[pos])
    /\ pos' = pos + 1
    /\ UNCHANGED <<template, parsed_template, builder, target, source,
                   remaining, payload, payload0, made, trace, error, pc>>

DictFromTemplate_return ==
    /\ pc = "parsing"
    /\ pos > Len(template)
    /\ pc' = "parsed"
    /\ UNCHANGED <<template, pos, parsed_template, builder, target, source,
                   remaining, payload, payload0, made, trace, error>>

----------------------------------------------------------------------------
(* The class-level lookup tables of the two builders. *)

Builders == {"PayloadFromTemplateDict", "PayloadFromDict"}

_handler ==
    [k \in {"Contact Type (P or R)", "Address", "Country Code",
            "Office Phone Number", "Office Phone Number Extension",
            "E-mail Address", "Mobile", "Fax", "Public Comments",
            "Org Address", "Org Country Code", "Admin POC Handle",
            "Tech POC Handle", "Abuse POC Handle", "NOC POC Handle"} |->
        CASE k = "Contact Type (P or R)" -> "_contact_type"
          [] k = "Address" -> "_address"
          [] k = "Country Code" -> "_country_code"
          [] k = "Office Phone Number" -> "_phone_office"
          [] k = "Office Phone Number Extension" -> "_office_extension"
          [] k = "E-mail Address" -> "_email_address"
          [] k = "Mobile" -> "_phone_mobile"
          [] k = "Fax" -> "_phone_fax"
          [] k = "Public Comments" -> "_comment"
          [] k = "Org Address" -> "_address"
          [] k = "Org Country Code" -> "_country_code"
          [] k = "Admin POC Handle" -> "_poc_admin"
          [] k = "Tech POC Handle" -> "_poc_tech"
          [] k = "Abuse POC Handle" -> "_poc_abuse"
          [] k = "NOC POC Handle" -> "_poc_noc"]

_attr ==
    [k \in {"Last Name or Role Account", "First Name", "Middle Name",
            "Company Name", "City", "State/Province", "Postal Code",
            "Organization's Legal Name", "Organization's D/B/A",
            "Business Tax ID Number (DO NOT LIST SSN)", "Org City",
            "Org State/Province", "Org Postal Code"} |->
        CASE k = "Last Name or Role Account" -> "lastName"
          [] k = "First Name" -> "firstName"
          [] k = "Middle Name" -> "middleName"
          [] k = "Company Name" -> "companyName"
          [] k = "City" -> "city"
          [] k = "State/Province" -> "iso3166_2"
          [] k = "Postal Code" -> "postalCode"
          [] k = "Organization's Legal Name" -> "orgName"
          [] k = "Organization's D/B/A" -> "dbaName"
          [] k = "Business Tax ID Number (DO NOT LIST SSN)" -> "taxId"
          [] k = "Org City" -> "city"
          [] k = "Org State/Province" -> "iso3166_2"
          [] k = "Org Postal Code" -> "postalCode"]

_ignore ==
    {"API Key", "Registration Action (N,M, or R)", "Existing POC Handle",
     "Existing OrgID", "Referral Server", "Additional Information"}

handler ==
    [k \in {"Contact Type (P or R)", "Address", "Country Code",
            "Office Phone Number", "Office Phone Number Extension",
            "E-mail Address", "Mobile", "Fax"} |->
        CASE k = "Contact Type (P or R)" -> "_contact_type"
          [] k = "Address" -> "_address"
          [] k = "Country Code" -> "_country_code"
          [] k = "Office Phone Number" -> "_phone_office"
          [] k = "Office Phone Number Extension" -> "_office_extension"
          [] k = "E-mail Address" -> "_email_address"
          [] k = "Mobile" -> "_phone_mobile"
          [] k = "Fax" -> "_phone_fax"]

simple ==
    [k \in {"Last Name or Role Account", "First Name", "Middle Name",
            "Company Name", "City", "State/Province", "Postal Code"} |->
        CASE k = "Last Name or Role Account" -> "lastName"
          [] k = "First Name" -> "firstName"
          [] k = "Middle Name" -> "middleName"
          [] k = "Company Name" -> "companyName"
          [] k = "City" -> "city"
          [] k = "State/Province" -> "iso3166_2"
          [] k = "Postal Code" -> "postalCode"]

ignore ==
    {"API Key", "Registration Action (N,M, or R)", "Existing POC Handle",
     "Public Comments"}

(* The tables seen through self. *)
HandlerOf(b) == IF b = "PayloadFromTemplateDict" THEN _handler ELSE handler

AttrOf(b) == IF b = "PayloadFromTemplateDict" THEN _attr ELSE simple

IgnoreOf(b) == IF b = "PayloadFromTemplateDict" THEN _ignore ELSE ignore

----------------------------------------------------------------------------
(* Payload objects.  An attribute is missing (reading it raises             *)
(* AttributeError), None, or a list.                                        *)

ScalarAttrs ==
    {"contactType", "lastName", "firstName", "middleName", "companyName",
     "city", "iso3166_2", "postalCode", "orgName", "dbaName", "taxId"}

ContainerAttrs == {"streetAddress", "comment", "phones", "emails", "pocLinks"}

Attrs == ScalarAttrs \cup ContainerAttrs \cup {"iso3166_1"}

Missing == [st |-> "missing", v |-> <<>>]

None == [st |-> "none", v |-> <<>>]

List(v) == [st |-> "list", v |-> v]

PocAttrs ==
    {"iso3166_2", "iso3166_1", "emails", "streetAddress", "city",
     "postalCode", "comment", "contactType", "companyName", "firstName",
     "middleName", "lastName", "phones"}

OrgAttrs ==
    {"iso3166_1", "streetAddress", "city", "iso3166_2", "postalCode",
     "comment", "orgName", "dbaName", "taxId", "pocLinks"}

Targets == {"poc", "org", "stub"}

(* target(): a POC payload, an ORG payload, and a class that declares every
   attribute with the unset placeholder. *)
NewPayload(t) ==
    [a \in Attrs |->
        CASE t = "poc" -> IF a \in PocAttrs THEN List(<<>>) ELSE Missing
          [] t = "org" -> IF a \in OrgAttrs THEN List(<<>>) ELSE Missing
          [] OTHER -> None]

(* Country-code reference. *)
countries ==
    [c \in {"US"} |-> [alpha2 |-> "US", alpha3 |-> "USA", name |-> "United States"]]

----------------------------------------------------------------------------
(* Outcomes of a handler call. *)

NoError == [kind |-> "", what |-> "", type |-> "", name |-> ""]

Raise(kind) == [kind |-> kind, what |-> "", type |-> "", name |-> ""]

RegRwsError(what, type, name) ==
    [kind |-> "RegRwsError", what |-> what, type |-> type, name |-> name]

Result(p, m, e) == [payload |-> p, made |-> m, error |-> e]

(* Truth value of an attribute that exists. *)
falsy(p, a) == p[a].st = "none" \/ p[a].v = <<>>

----------------------------------------------------------------------------
(* Field handlers.  Each takes the payload p, the count m of container      *)
(* constructor calls made so far and the key's value list, and yields the   *)
(* payload, the count and the exception raised (NoError for a normal        *)
(* return).                                                                 *)

_verify_attribute(p, t, attr) ==
    IF p[attr].st \in {"missing", "none"}
    THEN RegRwsError("attribute", t, attr)
    ELSE NoError

(* _assign with setattr ahead of the verification, which then passes. *)
_assign_unverified(p, m, t, attr, value) ==
    Result([p EXCEPT ![attr] = List(value)], m, NoError)

_assign(p, m, t, attr, value) ==
    IF _verify_attribute(p, t, attr) # NoError
    THEN Result(p, m, _verify_attribute(p, t, attr))
    ELSE Result([p EXCEPT ![attr] = List(value)], m, NoError)

(* _contact_type looking at the first value only. *)
_contact_type_first(p, m, t, value) ==
    IF _verify_attribute(p, t, "contactType") # NoError
    THEN Result(p, m, _verify_attribute(p, t, "contactType"))
    ELSE IF value[1] = "P"
         THEN Result([p EXCEPT !["contactType"] = List(<<"PERSON">>)], m, NoError)
         ELSE IF value[1] = "R"
              THEN Result([p EXCEPT !["contactType"] = List(<<"ROLE">>)], m, NoError)
              ELSE Result(p, m, NoError)

_contact_type(p, m, t, value) ==
    IF _verify_attribute(p, t, "contactType") # NoError
    THEN Result(p, m, _verify_attribute(p, t, "contactType"))
    ELSE IF value = <<"P">>
         THEN Result([p EXCEPT !["contactType"] = List(<<"PERSON">>)], m, NoError)
         ELSE IF value = <<"R">>
              THEN Result([p EXCEPT !["contactType"] = List(<<"ROLE">>)], m, NoError)
              ELSE Result(p, m, NoError)

(* lazy without the emptiness test: a fresh container on every call. *)
lazy_always(p, attr, empty) == [p EXCEPT ![attr] = List(<<empty>>)]

(* "if not self.payload.<attr>: self.payload.<attr> = [<container>()]" *)
lazy(p, attr, empty) ==
    IF falsy(p, attr) THEN [p EXCEPT ![attr] = List(<<empty>>)] ELSE p

lazycount(p, m, attr) ==
    IF falsy(p, attr) THEN [m EXCEPT ![attr] = @ + 1] ELSE m

(* enumerate(value, start) wrapped in line objects *)
numbered(value, start) ==
    [i \in 1..Len(value) |-> [number |-> start + i - 1, valueOf_ |-> value[i]]]

_address(p, m, value) ==
    IF p["streetAddress"].st = "missing"
    THEN Result(p, m, Raise("AttributeError"))
    ELSE Result([lazy(p, "streetAddress", [line |-> <<>>])
                    EXCEPT !["streetAddress"].v[1].line = @ \o numbered(value, 0)],
                lazycount(p, m, "streetAddress"), NoError)

PayloadFromDict_address(p, m, value) ==
    IF p["streetAddress"].st = "missing"
    THEN Result(p, m, Raise("AttributeError"))
    ELSE Result([lazy(p, "streetAddress", [line |-> <<>>])
                    EXCEPT !["streetAddress"].v[1].line = @ \o numbered(value, 1)],
                lazycount(p, m, "streetAddress"), NoError)

(* _comment still writing to the attribute of _address. *)
_comment_into_address(p, m, value) ==
    IF p["streetAddress"].st = "missing"
    THEN Result(p, m, Raise("AttributeError"))
    ELSE Result([lazy(p, "streetAddress", [line |-> <<>>])
                    EXCEPT !["streetAddress"].v[1].line = @ \o numbered(value, 0)],
                lazycount(p, m, "streetAddress"), NoError)

_comment(p, m, value) ==
    IF p["comment"].st = "missing"
    THEN Result(p, m, Raise("AttributeError"))
    ELSE Result([lazy(p, "comment", [line |-> <<>>])
                    EXCEPT !["comment"].v[1].line = @ \o numbered(value, 0)],
                lazycount(p, m, "comment"), NoError)

_country_code(p, m, value) ==
    Result([p EXCEPT !["iso3166_1"] =
                List(<<[code2 |-> value, code3 |-> <<>>, name |-> <<>>]>>)],
           m, NoError)

PayloadFromDict_country_code(p, m, value) ==
    IF value[1] \notin DOMAIN countries
    THEN Result(p, m, Raise("KeyError"))
    ELSE LET country == countries[value[1]]
         IN  Result([p EXCEPT !["iso3166_1"] =
                        List(<<[code2 |-> <<country.alpha2>>,
                                code3 |-> <<country.alpha3>>,
                                name |-> <<country.name>>]>>)],
                    m, NoError)

_phone(p, m, value, type_code) ==
    IF p["phones"].st = "missing"
    THEN Result(p, m, Raise("AttributeError"))
    ELSE Result([lazy(p, "phones", [phone |-> <<>>])
                    EXCEPT !["phones"].v[1].phone =
                        Append(@, [number |-> value,
                                   type_ |-> <<[code |-> <<type_code>>]>>,
                                   extension |-> <<>>])],
                lazycount(p, m, "phones"), NoError)

_phone_office(p, m, value) == _phone(p, m, value, "O")

_phone_mobile(p, m, value) == _phone(p, m, value, "M")

_phone_fax(p, m, value) == _phone(p, m, value, "F")

_poc(p, m, value, function) ==
    IF p["pocLinks"].st = "missing"
    THEN Result(p, m, Raise("AttributeError"))
    ELSE Result([lazy(p, "pocLinks", [pocLinkRef |-> <<>>])
                    EXCEPT !["pocLinks"].v[1].pocLinkRef =
                        Append(@, [function |-> function, handle |-> value[1]])],
                lazycount(p, m, "pocLinks"), NoError)

_poc_admin(p, m, value) == _poc(p, m, value, "AD")

_poc_tech(p, m, value) == _poc(p, m, value, "T")

_poc_abuse(p, m, value) == _poc(p, m, value, "AB")

_poc_noc(p, m, value) == _poc(p, m, value, "N")

_office_extension(p, m, value) ==
    CASE p["phones"].st = "missing" -> Result(p, m, Raise("AttributeError"))
      [] p["phones"].st = "none" -> Result(p, m, Raise("TypeError"))
      [] p["phones"].st = "list" /\ p["phones"].v = <<>> ->
            Result(p, m, Raise("IndexError"))
      [] OTHER ->
            Result([p EXCEPT !["phones"].v[1].phone =
                        [i \in 1..Len(@) |->
                            IF @[i].type_[1].code[1] = "O"
                            THEN [@[i] EXCEPT !.extension = value]
                            ELSE @[i]]],
                   m, NoError)

_email_address(p, m, value) ==
    IF p["emails"].st = "missing"
    THEN Result(p, m, Raise("AttributeError"))
    ELSE Result([lazy(p, "emails", [email |-> <<>>])
                    EXCEPT !["emails"].v[1].email = @ \o value],
                lazycount(p, m, "emails"), NoError)

(* getattr(self, name)(value) *)
method(b, name, p, m, t, value) ==
    CASE name = "_contact_type" -> _contact_type(p, m, t, value)
      [] name = "_address" ->
            IF b = "PayloadFromTemplateDict"
            THEN _address(p, m, value)
            ELSE PayloadFromDict_address(p, m, value)
      [] name = "_comment" -> _comment(p, m, value)
      [] name = "_country_code" ->
            IF b = "PayloadFromTemplateDict"
            THEN _country_code(p, m, value)
            ELSE PayloadFromDict_country_code(p, m, value)
      [] name = "_phone_office" -> _phone_office(p, m, value)
      [] name = "_phone_mobile" -> _phone_mobile(p, m, value)
      [] name = "_phone_fax" -> _phone_fax(p, m, value)
      [] name = "_office_extension" -> _office_extension(p, m, value)
      [] name = "_email_address" -> _email_address(p, m, value)
      [] name = "_poc_admin" -> _poc_admin(p, m, value)
      [] name = "_poc_tech" -> _poc_tech(p, m, value)
      [] name = "_poc_abuse" -> _poc_abuse(p, m, value)
      [] name = "_poc_noc" -> _poc_noc(p, m, value)

----------------------------------------------------------------------------
(* The builder: construction and the dispatch loop of run().  The source is *)
(* a plain dict, so iteritems() yields its keys in an order that the        *)
(* template does not fix: any key not yet visited may come next.            *)

PayloadFromDict__init__ ==
    /\ pc = "parsed"
    /\ DOMAIN HandlerOf(builder) # {} \/ DOMAIN AttrOf(builder) # {}
    /\ source' = parsed_template
    /\ remaining' = DOMAIN parsed_template
    /\ payload' = NewPayload(target)
    /\ payload0' = NewPayload(target)
    /\ made' = [a \in ContainerAttrs |-> 0]
    /\ pc' = "building"
    /\ UNCHANGED <<template, pos, parsed_template, builder, target, trace, error>>

(* The loop body returned or raised with outcome r while visiting key. *)
step(key, r) ==
    /\ remaining' = remaining \ {key}
    /\ trace' = Append(trace, key)
    /\ payload' = r.payload
    /\ made' = r.made
    /\ error' = r.error
    /\ pc' = IF r.error = NoError THEN "building" ELSE "raised"
    /\ UNCHANGED <<template, pos, parsed_template, builder, target, source,
                   payload0>>

run_handler ==
    /\ pc = "building"
    /\ \E key \in remaining :
        /\ key \in DOMAIN HandlerOf(builder)
        /\ step(key, method(builder, HandlerOf(builder)[key], payload, made,
                            target, source[key]))

run_attr ==
    /\ pc = "building"
    /\ \E key \in remaining :
        /\ key \notin DOMAIN HandlerOf(builder)
        /\ key \in DOMAIN AttrOf(builder)
        /\ step(key, _assign(payload, made, target, AttrOf(builder)[key],
                             source[key]))

run_ignore ==
    /\ pc = "building"
    /\ \E key \in remaining :
        /\ key \notin DOMAIN HandlerOf(builder)
        /\ key \notin DOMAIN AttrOf(builder)
        /\ key \in IgnoreOf(builder)
        /\ step(key, Result(payload, made, NoError))

(* run with the final else branch skipping the key like an ignored one. *)
run_unknown_skipped ==
    /\ pc = "building"
    /\ \E key \in remaining :
        /\ key \notin DOMAIN HandlerOf(builder)
        /\ key \notin DOMAIN AttrOf(builder)
        /\ key \notin IgnoreOf(builder)
        /\ step(key, Result(payload, made, NoError))

run_unknown ==
    /\ pc = "building"
    /\ \E key \in remaining :
        /\ key \notin DOMAIN HandlerOf(builder)
        /\ key \notin DOMAIN AttrOf(builder)
        /\ key \notin IgnoreOf(builder)
        /\ step(key, Result(payload, made, RegRwsError("key", target, key)))

run_return ==
    /\ pc = "building"
    /\ remaining = {}
    /\ pc' = "returned"
    /\ UNCHANGED <<template, pos, parsed_template, builder, target, source,
                   remaining, payload, payload0, made, trace, error>>

----------------------------------------------------------------------------
Init ==
    /\ template \in Templates
    /\ pos = 1
    /\ parsed_template = EmptyDict
    /\ builder \in Builders
    /\ target \in Targets
    /\ source = EmptyDict
    /\ remaining = {}
    /\ payload = EmptyDict
    /\ payload0 = EmptyDict
    /\ made = EmptyDict
    /\ trace = <<>>
    /\ error = NoError
    /\ pc = "parsing"

Next ==
    \/ DictFromTemplate_match
    \/ DictFromTemplate_nomatch
    \/ DictFromTemplate_return
    \/ PayloadFromDict__init__
    \/ run_handler
    \/ run_attr
    \/ run_ignore
    \/ run_unknown
    \/ run_return

Spec == Init /\ [][Next]_vars

----------------------------------------------------------------------------
(* Vocabulary of the properties. *)

Unknown(b, k) ==
    k \notin DOMAIN HandlerOf(b) /\ k \notin DOMAIN AttrOf(b) /\ k \notin IgnoreOf(b)

Built == pc \in {"building", "returned", "raised"}

Ended == pc \in {"returned", "raised"}

(* The step visits one key of the source; Visited is that key. *)
Visiting == pc = "building" /\ Len(trace') = Len(trace) + 1

Visited == trace'[Len(trace')]

Matching(n) == {i \in 1..n : regex_match(template[i])}

LabelAt(i) == strip(group1(template[i]))

ValueAt(i) == strip(group2(template[i]))

(* The values of the matching lines among the first n that carry label k,
   in the order of the lines. *)
RECURSIVE ValuesOf(_, _)
ValuesOf(k, n) ==
    IF n = 0
    THEN <<>>
    ELSE IF regex_match(template[n]) /\ LabelAt(n) = k
         THEN Append(ValuesOf(k, n - 1), ValueAt(n))
         ELSE ValuesOf(k, n - 1)

(* Line of the first occurrence of label k. *)
FirstLine(k) ==
    CHOOSE i \in Matching(Len(template)) :
        LabelAt(i) = k /\ \A j \in Matching(i - 1) : LabelAt(j) # k

(* The attribute a handler writes to. *)
HandlerTarget(name) ==
    CASE name = "_contact_type" -> "contactType"
      [] name \in {"_address"} -> "streetAddress"
      [] name = "_comment" -> "comment"
      [] name = "_country_code" -> "iso3166_1"
      [] name \in {"_phone_office", "_phone_mobile", "_phone_fax",
                   "_office_extension"} -> "phones"
      [] name = "_email_address" -> "emails"
      [] OTHER -> "pocLinks"

(* The attributes the keys of the source are aimed at. *)
Targeted ==
    {HandlerTarget(HandlerOf(builder)[k]) :
        k \in DOMAIN source \cap DOMAIN HandlerOf(builder)}
    \cup {AttrOf(builder)[k] :
            k \in (DOMAIN source \cap DOMAIN AttrOf(builder))
                    \ DOMAIN HandlerOf(builder)}

(* The entries of the container held by attribute a. *)
items(p, a) ==
    IF p[a].st # "list" \/ p[a].v = <<>>
    THEN <<>>
    ELSE CASE a \in {"streetAddress", "comment"} -> p[a].v[1].line
           [] a = "phones" -> p[a].v[1].phone
           [] a = "emails" -> p[a].v[1].email
           [] OTHER -> p[a].v[1].pocLinkRef

(* An entry without the part a later handler may fill in in place (the
   extension of a phone entry). *)
Appended(a, e) == IF a = "phones" THEN [number |-> e.number, type_ |-> e.type_] ELSE e

(* Every entry of s is still in t, at its position. *)
Kept(a, s, t) ==
    /\ Len(s) <= Len(t)
    /\ \A i \in 1..Len(s) : Appended(a, t[i]) = Appended(a, s[i])

HasOfficePhone(p) ==
    \E i \in 1..Len(items(p, "phones")) :
        items(p, "phones")[i].type_[1].code[1] = "O"

----------------------------------------------------------------------------
(* C2: at every point of DictFromTemplate.run(), and so in the mapping it
   returns, the keys are exactly the labels of the matching lines read so
   far, each key's list is exactly the trimmed values of the matching lines
   carrying that label in the order of the lines, and no list is empty; a
   template with no matching line yields the empty mapping. *)
C2_ParsedIsValuesInOrder ==
    LET n == pos - 1
    IN  /\ DOMAIN parsed_template = {LabelAt(i) : i \in Matching(n)}
        /\ \A k \in DOMAIN parsed_template :
            /\ parsed_template[k] = ValuesOf(k, n)
            /\ parsed_template[k] # <<>>
        /\ (Matching(n) = {} => parsed_template = EmptyDict)

C2_Witness ==
    /\ pc = "parsed"
    /\ \E k \in DOMAIN parsed_template :
        /\ Len(parsed_template[k]) = 2
        /\ parsed_template[k][1] # parsed_template[k][2]

----------------------------------------------------------------------------
(* C1 as stated: when PayloadFromTemplateDict.run() has ended on a source holding a key that is in
   none of the three tables, it has raised the mapping error that names
   that key. *)
C1_EveryUnknownKeyIsNamed ==
    (Ended /\ builder = "PayloadFromTemplateDict") =>
        \A k \in DOMAIN source :
            Unknown(builder, k) =>
                pc = "raised" /\ error = RegRwsError("key", target, k)

(* C1 amended: a source holding a key that is in none of the three tables
   never yields a payload; the visit of such a key raises the mapping error
   naming it and ends the run; and the unmapped-key error only ever names a
   key of the source that is in none of the tables. *)
C1_UnknownKeyNeverReturns ==
    /\ pc = "returned" => \A k \in DOMAIN source : ~Unknown(builder, k)
    /\ \A i \in 1..Len(trace) :
        Unknown(builder, trace[i]) =>
            /\ i = Len(trace)
            /\ pc = "raised"
            /\ error = RegRwsError("key", target, trace[i])
    /\ error.what = "key" =>
        /\ pc = "raised"
        /\ error.name \in DOMAIN source
        /\ Unknown(builder, error.name)
        /\ error.name = trace[Len(trace)]

C1_Witness ==
    /\ pc = "raised"
    /\ error.what = "key"
    /\ Len(trace) = 2
    /\ payload # payload0

----------------------------------------------------------------------------
ExtensionKey == "Office Phone Number Extension"

OfficeKey == "Office Phone Number"

(* C3: a visit of the office-extension key that is not preceded by a visit
   of the office-phone key ends the run with an error, whatever else was
   visited before. *)
C3_ExtensionWithoutOfficeFails ==
    \A i \in 1..Len(trace) :
        (/\ trace[i] = ExtensionKey
         /\ \A j \in 1..(i - 1) : trace[j] # OfficeKey)
            => pc = "raised" /\ i = Len(trace)

----------------------------------------------------------------------------
(* C4: when two distinct labels of the template map to the same scalar
   attribute, a finished PayloadFromTemplateDict build leaves in that
   attribute the value list of the label met later in the template. *)
C4_LaterLabelWins ==
    (pc = "returned" /\ builder = "PayloadFromTemplateDict") =>
        \A k1, k2 \in DOMAIN source \cap DOMAIN _attr :
            (_attr[k1] = _attr[k2] /\ FirstLine(k1) < FirstLine(k2))
                => payload[_attr[k1]] = List(source[k2])

----------------------------------------------------------------------------
(* C5: in a build every container attribute sees at most one container
   construction, made while the attribute is still empty, never holds more
   than one container, and every visit keeps every entry appended earlier
   at its position in the container. *)
C5_ContainerCreatedOnceAndKept ==
    [][Visiting =>
        \A a \in ContainerAttrs :
            /\ made'[a] <= 1
            /\ Len(payload'[a].v) <= 1
            /\ made'[a] # made[a] => (made[a] = 0 /\ items(payload, a) = <<>>)
            /\ Kept(a, items(payload, a), items(payload', a))]_vars

C5_Witness ==
    /\ pc = "returned"
    /\ trace = <<"Address", "Org Address">>
    /\ made["streetAddress"] = 1
    /\ Len(items(payload, "streetAddress")) = 2

----------------------------------------------------------------------------
(* The attribute that _assign or _contact_type verifies for key k. *)
VerifiedAttr(k) ==
    IF k \in DOMAIN HandlerOf(builder)
    THEN "contactType"
    ELSE AttrOf(builder)[k]

NeedsVerify(k) ==
    \/ k \in DOMAIN HandlerOf(builder) /\ HandlerOf(builder)[k] = "_contact_type"
    \/ k \notin DOMAIN HandlerOf(builder) /\ k \in DOMAIN AttrOf(builder)

(* C6: the visit of a scalar key or of the contact-type key whose target
   attribute is missing or None raises the mapping error naming the payload
   type and the attribute, and leaves the payload as it was. *)
C6_UndeclaredAttributeRaisesUnchanged ==
    [][(/\ Visiting
        /\ NeedsVerify(Visited)
        /\ payload[VerifiedAttr(Visited)].st \in {"missing", "none"})
            => /\ pc' = "raised"
               /\ error' = RegRwsError("attribute", target, VerifiedAttr(Visited))
               /\ payload' = payload]_vars

C6_Witness ==
    /\ pc = "raised"
    /\ error.what = "attribute"
    /\ error.name = "firstName"
    /\ payload # payload0

----------------------------------------------------------------------------
(* C7: after a successful run every attribute that no key of the source is
   aimed at has the value it had when the payload was constructed. *)
C7_UntargetedAttributesUntouched ==
    pc = "returned" =>
        \A a \in Attrs : a \notin Targeted => payload[a] = payload0[a]

C7_Witness ==
    /\ pc = "returned"
    /\ "API Key" \in DOMAIN source
    /\ payload # payload0

----------------------------------------------------------------------------
(* C8: on a payload that declares contactType the contact-type handler sets
   PERSON for ['P'] and ROLE for ['R'], and for every other value list it
   changes nothing; in no case does it raise. *)
C8_ContactType ==
    [][(/\ Visiting
        /\ Visited \in DOMAIN HandlerOf(builder)
        /\ HandlerOf(builder)[Visited] = "_contact_type"
        /\ payload["contactType"].st = "list")
            => /\ pc' = "building"
               /\ payload' =
                    IF source[Visited] = <<"P">>
                    THEN [payload EXCEPT !["contactType"] = List(<<"PERSON">>)]
                    ELSE IF source[Visited] = <<"R">>
                         THEN [payload EXCEPT !["contactType"] = List(<<"ROLE">>)]
                         ELSE payload]_vars

C8_Witness ==
    /\ pc = "returned"
    /\ trace = <<"Contact Type (P or R)">>
    /\ source["Contact Type (P or R)"] = <<"P", "R">>
    /\ payload["contactType"] = List(<<>>)

----------------------------------------------------------------------------
(* C9: a visit of a country-code key whose alpha-2 code the reference does
   not resolve raises the lookup failure and leaves iso3166_1 as it was;
   a visit that assigns a country object assigns one carrying alpha-2,
   alpha-3 and display name of the resolved country. *)
C9_CountryLookup ==
    [][(/\ Visiting
        /\ Visited \in DOMAIN HandlerOf(builder)
        /\ HandlerOf(builder)[Visited] = "_country_code")
            => IF source[Visited][1] \notin DOMAIN countries
               THEN /\ pc' = "raised"
                    /\ error'.kind = "KeyError"
                    /\ payload'["iso3166_1"] = payload["iso3166_1"]
               ELSE /\ pc' = "building"
                    /\ payload'["iso3166_1"] =
                        List(<<[code2 |-> <<countries[source[Visited][1]].alpha2>>,
                                code3 |-> <<countries[source[Visited][1]].alpha3>>,
                                name |-> <<countries[source[Visited][1]].name>>]>>)]_vars

----------------------------------------------------------------------------
(* C10: in a PayloadFromTemplateDict build every line entry of the
   street-address container and of the comment container carries the line
   number of its zero-based position in the container. *)
C10_LineNumberIsPosition ==
    (Built /\ builder = "PayloadFromTemplateDict") =>
        \A a \in {"streetAddress", "comment"} :
            \A i \in 1..Len(items(payload, a)) :
                items(payload, a)[i].number = i - 1

====
